---------------------------- MODULE Spec2Model ----------------------------
(***************************************************************************)
(* A model of the contacts service of src/src/app.py: the HTTP handlers    *)
(* (new_contact, list_contacts, search_contacts, search_contacts_all_time, *)
(* view_contact, view_contact_history, update_contact, delete_contact),    *)
(* the revision selector parse_revision, the Contact validator of          *)
(* src/src/schemas.py, and the versioned document store the handlers call. *)
(*                                                                         *)
(* Python values are tagged records (None, int, str, datetime), strings    *)
(* are sequences of one-character strings, so that truthiness, string      *)
(* formatting and parsing are computed and not assumed.                    *)
(***************************************************************************)
EXTENDS Integers, Sequences, FiniteSets, TLC

VARIABLES
    revs,   \* the store: revs[i] is the content of the resource at revision i
    sess,   \* per caller: the document and hash it last read, and the outcome of the mutation it then issued
    last    \* the last handler call and its response

vars == <<revs, sess, last>>

----------------------------------------------------------------------------
(* Bounds of the model *)

\* the number of revisions the store may reach (revision 1 is the empty resource)
MaxRevs == 4

\* the number of revisions of one contact that a planned history writes
MaxPlan == 6

----------------------------------------------------------------------------
(* Python values *)

NoneV == [tag |-> "none"]
IntV(n) == [tag |-> "int", v |-> n]
StrV(s) == [tag |-> "str", v |-> s]
DtV(t) == [tag |-> "datetime", v |-> t]

\* Python truthiness: None, 0 and "" are falsy; a datetime is always truthy
Truthy(x) ==
    CASE x.tag = "none" -> FALSE
      [] x.tag = "int" -> x.v # 0
      [] x.tag = "str" -> x.v # <<>>
      [] OTHER -> TRUE

\* Python's `a or b` on values
PyOr(a, b) == IF Truthy(a) THEN a ELSE b

----------------------------------------------------------------------------
(* Strings *)

Digits == {"0", "1", "2", "3", "4", "5", "6", "7", "8", "9"}

DigitVal(c) ==
    CASE c = "0" -> 0 [] c = "1" -> 1 [] c = "2" -> 2 [] c = "3" -> 3
      [] c = "4" -> 4 [] c = "5" -> 5 [] c = "6" -> 6 [] c = "7" -> 7
      [] c = "8" -> 8 [] c = "9" -> 9

\* the length of the run of digits of s that starts at position i
RECURSIVE DigitRun(_, _)
DigitRun(s, i) ==
    IF i <= Len(s) /\ s[i] \in Digits THEN 1 + DigitRun(s, i + 1) ELSE 0

\* the number written by the n digits of s from position i
RECURSIVE DigitsValue(_, _, _)
DigitsValue(s, i, n) ==
    IF n = 0 THEN 0
    ELSE 10 * DigitsValue(s, i, n - 1) + DigitVal(s[i + n - 1])

\* t occurs in s at position i
OccursAt(s, t, i) ==
    /\ i + Len(t) - 1 <= Len(s)
    /\ \A j \in 1..Len(t) : s[i + j - 1] = t[j]

\* substring containment, case-sensitive
Contains(s, t) == \E i \in 1..(Len(s) + 1) : OccursAt(s, t, i)

----------------------------------------------------------------------------
(* datetime.strptime(s, "%Y-%m-%dT%H:%M:%S.%f") *)

\* the directives and literals of the format, in order
TimestampFormat ==
    << [d |-> "Y"], [lit |-> "-"], [d |-> "m"], [lit |-> "-"], [d |-> "d"],
       [lit |-> "T"], [d |-> "H"], [lit |-> ":"], [d |-> "M"], [lit |-> ":"],
       [d |-> "S"], [lit |-> "."], [d |-> "f"] >>

\* the widths a directive accepts
MinWidth(d) == IF d = "Y" THEN 4 ELSE 1
MaxWidth(d) == CASE d = "Y" -> 4 [] d = "f" -> 6 [] OTHER -> 2

\* the values a directive accepts
MinValue(d) == IF d \in {"m", "d"} THEN 1 ELSE 0
MaxValue(d) ==
    CASE d = "Y" -> 9999 [] d = "m" -> 12 [] d = "d" -> 31 [] d = "H" -> 23
      [] d = "M" -> 59 [] d = "S" -> 61 [] d = "f" -> 999999

RECURSIVE Pow10(_)
Pow10(n) == IF n = 0 THEN 1 ELSE 10 * Pow10(n - 1)

\* %f is right-padded with zeros to microseconds
DirectiveValue(d, s, i, n) ==
    IF d = "f" THEN DigitsValue(s, i, n) * Pow10(6 - n) ELSE DigitsValue(s, i, n)

\* match items k.. of the format against s from position i; acc holds the
\* values read so far.  strict: every field has its full width (xs:dateTime)
RECURSIVE MatchFormat(_, _, _, _, _)
MatchFormat(s, i, k, acc, strict) ==
    IF k > Len(TimestampFormat)
    THEN IF i = Len(s) + 1 THEN [ok |-> TRUE, v |-> acc] ELSE [ok |-> FALSE]
    ELSE LET item == TimestampFormat[k] IN
         IF "lit" \in DOMAIN item
         THEN IF i <= Len(s) /\ s[i] = item.lit
              THEN MatchFormat(s, i + 1, k + 1, acc, strict)
              ELSE IF strict /\ item.lit = "." /\ i = Len(s) + 1
                   THEN [ok |-> TRUE, v |-> Append(acc, 0)]
                   ELSE [ok |-> FALSE]
         ELSE LET n == DigitRun(s, i)
                  lo == IF strict /\ item.d # "f" THEN MaxWidth(item.d) ELSE MinWidth(item.d)
                  hi == IF strict /\ item.d = "f" THEN n ELSE MaxWidth(item.d)
              IN IF n < lo \/ n > hi THEN [ok |-> FALSE]
                 ELSE LET val == DirectiveValue(item.d, s, i, IF n > 6 THEN 6 ELSE n) IN
                      IF val < MinValue(item.d) \/ val > MaxValue(item.d)
                      THEN [ok |-> FALSE]
                      ELSE MatchFormat(s, i + n, k + 1, Append(acc, val), strict)

IsLeap(y) == (y % 4 = 0 /\ y % 100 # 0) \/ y % 400 = 0

DaysInMonth(y, m) ==
    CASE m \in {4, 6, 9, 11} -> 30
      [] m = 2 -> IF IsLeap(y) THEN 29 ELSE 28
      [] OTHER -> 31

\* the datetime constructor refuses a day the month does not have and a
\* second above 59
ValidDateTime(t) == t[3] <= DaysInMonth(t[1], t[2]) /\ t[6] <= 59

\* [ok |-> TRUE, v |-> <<Y, m, d, H, M, S, f>>], or [ok |-> FALSE] for ValueError
strptime(s) ==
    LET m == MatchFormat(s, 1, 1, <<>>, FALSE) IN
    IF m.ok /\ ValidDateTime(m.v) THEN m ELSE [ok |-> FALSE]

----------------------------------------------------------------------------
(* parse_revision *)

\* revision_id or ((revision_timestamp and strptime(...)) or None), with
\* Python's lazy `or` and `and`: strptime runs only when revision_id is falsy
\* and revision_timestamp is truthy.  [ok |-> FALSE] is the ValueError.
parse_revision_wrong_precedence(revision_id, revision_timestamp) ==
    IF Truthy(revision_timestamp)
    THEN LET p == strptime(revision_timestamp.v) IN
         IF p.ok THEN [ok |-> TRUE, v |-> DtV(p.v)] ELSE [ok |-> FALSE]
    ELSE [ok |-> TRUE, v |-> PyOr(revision_id, NoneV)]

parse_revision(revision_id, revision_timestamp) ==
    IF Truthy(revision_id) THEN [ok |-> TRUE, v |-> revision_id]
    ELSE IF ~Truthy(revision_timestamp) THEN [ok |-> TRUE, v |-> NoneV]
    ELSE LET p == strptime(revision_timestamp.v) IN
         IF p.ok THEN [ok |-> TRUE, v |-> DtV(p.v)] ELSE [ok |-> FALSE]

----------------------------------------------------------------------------
(* Contact (src/src/schemas.py) *)

Fields == {"name", "phone", "email", "address"}

Contact(name, phone, email, address) ==
    [name |-> name, phone |-> phone, email |-> email, address |-> address]

\* the root validator: at least one field is truthy
check_not_empty_all(fields) == \A f \in DOMAIN fields : Truthy(fields[f])

check_not_empty(fields) == \E f \in DOMAIN fields : Truthy(fields[f])

----------------------------------------------------------------------------
(* The versioned store *)

\* a revision is the array of the resource: a sequence of
\* [nodeKey |-> k, doc |-> d], in insertion order
Range(q) == {q[i] : i \in 1..Len(q)}

KeysOf(rev) == {e.nodeKey : e \in Range(rev)}

DocOf(rev, k) == (CHOOSE e \in Range(rev) : e.nodeKey = k).doc

RECURSIVE SelectSeq2(_, _, _)
\* the entries of q that satisfy Test(_, arg), in order
SelectSeq2(q, Test(_, _), arg) ==
    IF q = <<>> THEN <<>>
    ELSE IF Test(Head(q), arg)
         THEN <<Head(q)>> \o SelectSeq2(Tail(q), Test, arg)
         ELSE SelectSeq2(Tail(q), Test, arg)

\* the digest of a document's field values
Hash(doc) == <<doc.name, doc.phone, doc.email, doc.address>>

\* the commit time of revision i, as a datetime
RevisionTimestamp(i) == <<2020, 1, 1, 0, 0, i, 0>>

\* datetimes compare field by field
RECURSIVE DtLeqFrom(_, _, _)
DtLeqFrom(a, b, i) ==
    IF i > Len(a) THEN TRUE
    ELSE IF a[i] # b[i] THEN a[i] < b[i]
    ELSE DtLeqFrom(a, b, i + 1)

DtLeq(a, b) == DtLeqFrom(a, b, 1)

\* the keys ever assigned; a key is never assigned twice
AllKeys(rs) == UNION {KeysOf(rs[i]) : i \in 1..Len(rs)}

NextKey(rs) == Cardinality(AllKeys(rs)) + 1

\* the revision number a reference names, 0 when the store has none:
\* None is the latest revision, an int the revision of that number, a
\* datetime the last revision committed at or before it
ResolveRevision(rs, ref) ==
    CASE ref.tag = "none" -> Len(rs)
      [] ref.tag = "int" -> IF ref.v \in 1..Len(rs) THEN ref.v ELSE 0
      [] ref.tag = "datetime" ->
            LET upto == {i \in 1..Len(rs) : DtLeq(RevisionTimestamp(i), ref.v)} IN
            IF upto = {} THEN 0 ELSE CHOOSE i \in upto : \A j \in upto : j <= i
      [] OTHER -> 0

\* insert_one: a new revision with the record appended under a fresh key
insert_one(rs, record) ==
    Append(rs, Append(rs[Len(rs)], [nodeKey |-> NextKey(rs), doc |-> record]))

\* the record with the fields of update_dict written over its own
MergeFields(doc, update_dict) ==
    [f \in DOMAIN doc \cup DOMAIN update_dict |->
        IF f \in DOMAIN update_dict THEN update_dict[f] ELSE doc[f]]

\* update_by_key: a new revision in which the record of node_key carries the
\* fields of update_dict; fails when the latest revision has no such record
update_by_key(rs, node_key, update_dict) ==
    LET cur == rs[Len(rs)] IN
    IF node_key \notin KeysOf(cur) THEN [ok |-> FALSE, revs |-> rs]
    ELSE [ok |-> TRUE,
          revs |-> Append(rs,
              [i \in 1..Len(cur) |->
                  IF cur[i].nodeKey = node_key
                  THEN [nodeKey |-> node_key, doc |-> MergeFields(cur[i].doc, update_dict)]
                  ELSE cur[i]])]

KeyIsNot(e, k) == e.nodeKey # k

\* Resource.delete(node_id, etag): the store removes the record in a new
\* revision when it is in the latest revision and its hash is etag, and
\* fails otherwise
resource_delete(rs, node_id, etag) ==
    LET cur == rs[Len(rs)] IN
    IF node_id \in KeysOf(cur) /\ Hash(DocOf(cur, node_id)) = etag
    THEN [ok |-> TRUE, revs |-> Append(rs, SelectSeq2(cur, KeyIsNot, node_id))]
    ELSE [ok |-> FALSE, revs |-> rs]

\* find_all({}, revision, hash=True): every record of the revision, with
\* its key and hash; fails when the store has no such revision
find_all(rs, revision) ==
    LET r == ResolveRevision(rs, revision) IN
    IF r = 0 THEN [ok |-> FALSE, rows |-> <<>>]
    ELSE [ok |-> TRUE,
          rows |-> [i \in 1..Len(rs[r]) |->
                      [nodeKey |-> rs[r][i].nodeKey,
                       hash |-> Hash(rs[r][i].doc),
                       doc |-> rs[r][i].doc]]]

\* find_by_key(node_key, revision): the record of the key at the revision;
\* fails when the revision has no such record
find_by_key(rs, node_key, revision) ==
    LET r == ResolveRevision(rs, revision) IN
    IF r = 0 \/ node_key \notin KeysOf(rs[r]) THEN [ok |-> FALSE]
    ELSE [ok |-> TRUE, doc |-> DocOf(rs[r], node_key)]

\* the revisions in which the key has a record, ascending
RevisionsOf(rs, k) == SelectSeq([i \in 1..Len(rs) |-> i], LAMBDA i : k \in KeysOf(rs[i]))

\* forward reduction in the place of backward reduction: the revisions of
\* the key that have no next revision of it, or whose hash is not the next
\* revision's
ChangePointsForward(rs, k) ==
    SelectSeq(RevisionsOf(rs, k),
              LAMBDA i : \/ i = Len(rs)
                         \/ k \notin KeysOf(rs[i + 1])
                         \/ Hash(DocOf(rs[i], k)) # Hash(DocOf(rs[i + 1], k)))

\* a revision of the key is compared with the revision two before it, not
\* with the revision before it
ChangePointsSkipping(rs, k) ==
    SelectSeq(RevisionsOf(rs, k),
              LAMBDA i : \/ i <= 2
                         \/ k \notin KeysOf(rs[i - 2])
                         \/ Hash(DocOf(rs[i], k)) # Hash(DocOf(rs[i - 2], k)))

\* backward reduction: the revisions of the key that have no previous
\* revision of it, or whose hash is not the previous revision's
ChangePoints(rs, k) ==
    SelectSeq(RevisionsOf(rs, k),
              LAMBDA i : \/ i = 1
                         \/ k \notin KeysOf(rs[i - 1])
                         \/ Hash(DocOf(rs[i], k)) # Hash(DocOf(rs[i - 1], k)))

\* history_embed(node_key, revision): the record is selected in the given
\* revision, so the call fails when it is not there; the result is the
\* change points of the record over all revisions, each with its content
history_embed(rs, node_key, revision) ==
    LET r == ResolveRevision(rs, revision) IN
    IF r = 0 \/ node_key \notin KeysOf(rs[r]) THEN [ok |-> FALSE, rows |-> <<>>]
    ELSE LET cp == ChangePoints(rs, node_key) IN
         [ok |-> TRUE,
          rows |-> [j \in 1..Len(cp) |->
                      [revisionNumber |-> cp[j],
                       revisionTimestamp |-> RevisionTimestamp(cp[j]),
                       revision |-> DocOf(rs[cp[j]], node_key)]]]

\* history(node_key, revision): the same, without the content
history(rs, node_key, revision) ==
    LET h == history_embed(rs, node_key, revision) IN
    [ok |-> h.ok,
     rows |-> [j \in 1..Len(h.rows) |->
                 [revisionNumber |-> h.rows[j].revisionNumber,
                  revisionTimestamp |-> h.rows[j].revisionTimestamp]]]

\* an XQuery string literal '...' read back: '' inside it is one quote, a
\* single quote ends it, and text after the end is a syntax error (for
\* the texts of letters and quotes that are searched here)
RECURSIVE LiteralFrom(_, _, _)
LiteralFrom(lit, i, acc) ==
    IF i > Len(lit) THEN [ok |-> FALSE]
    ELSE IF lit[i] # "'" THEN LiteralFrom(lit, i + 1, Append(acc, lit[i]))
    ELSE IF i < Len(lit) /\ lit[i + 1] = "'" THEN LiteralFrom(lit, i + 2, Append(acc, "'"))
    ELSE IF i = Len(lit) THEN [ok |-> TRUE, v |-> acc]
    ELSE [ok |-> FALSE]

StringLiteral(lit) ==
    IF Len(lit) < 2 \/ lit[1] # "'" THEN [ok |-> FALSE] ELSE LiteralFrom(lit, 2, <<>>)

\* xs:dateTime('...'): the fixed-width form
xs_dateTime(lit) ==
    LET s == StringLiteral(lit) IN
    IF ~s.ok THEN [ok |-> FALSE]
    ELSE LET m == MatchFormat(s.v, 1, 1, <<>>, TRUE) IN
         IF m.ok /\ ValidDateTime(m.v) THEN m ELSE [ok |-> FALSE]

\* the revision a query opens: "." is the latest one, jn:doc(.., n) the
\* revision of that number, jn:open(.., xs:dateTime(..)) the one of that time
OpenResource(rs, open) ==
    CASE open.fn = "." -> Len(rs)
      [] open.fn = "jn:doc" -> ResolveRevision(rs, IntV(open.arg))
      [] open.fn = "jn:open" ->
            LET t == xs_dateTime(open.lit) IN
            IF t.ok THEN ResolveRevision(rs, DtV(t.v)) ELSE 0

\* one comparison of the where clause on a record: `$i=>f eq '..'` holds of
\* a string field equal to the literal, `contains(..)` of a string field
\* that contains it; a field that is absent or null matches neither
Matches(doc, cmp) ==
    /\ cmp.field \in DOMAIN doc
    /\ doc[cmp.field].tag = "str"
    /\ LET t == StringLiteral(cmp.lit).v IN
       IF cmp.fn = "contains" THEN Contains(doc[cmp.field].v, t)
       ELSE doc[cmp.field].v = t

MatchesAll(doc, where) == \A j \in 1..Len(where) : Matches(doc, where[j])

WellFormed(where) == \A j \in 1..Len(where) : StringLiteral(where[j].lit).ok

IsDeleted(rs, k) == k \notin KeysOf(rs[Len(rs)])

\* Resource.query of
\*   for $i in bit:array-values(<open>) where <where>
\*   return {$i, 'nodeKey': sdb:nodekey($i), 'hash': sdb:hash($i)}
query_revision(rs, open, where) ==
    LET r == OpenResource(rs, open) IN
    IF ~WellFormed(where) \/ r = 0 THEN [ok |-> FALSE, rest |-> <<>>]
    ELSE LET hits == SelectSeq(rs[r], LAMBDA e : MatchesAll(e.doc, where)) IN
         [ok |-> TRUE,
          rest |-> [j \in 1..Len(hits) |->
                      [nodeKey |-> hits[j].nodeKey,
                       hash |-> Hash(hits[j].doc),
                       doc |-> hits[j].doc]]]

\* backward reduction in the place of the deduplication: the record is
\* compared with its previous revision
KeptByPrevious(rs, i, e) ==
    \/ i = 1
    \/ e.nodeKey \notin KeysOf(rs[i - 1])
    \/ Hash(e.doc) # Hash(DocOf(rs[i - 1], e.nodeKey))

\* the record of revision i survives the deduplication: it has no future
\* revision, or its hash is not the hash of its next revision
KeptByFuture(rs, i, e) ==
    \/ i = Len(rs)
    \/ e.nodeKey \notin KeysOf(rs[i + 1])
    \/ Hash(e.doc) # Hash(DocOf(rs[i + 1], e.nodeKey))

RECURSIVE Flatten(_)
Flatten(qq) == IF qq = <<>> THEN <<>> ELSE Head(qq) \o Flatten(Tail(qq))

\* Resource.query of
\*   for $rev in jn:all-times(.) for $i in bit:array-values($rev)
\*   [where sdb:is-deleted($i)] [where <where>] return <deduplicate>
\* a record that comes from a revision is returned with that revision's
\* number and time
query_all_times(rs, deleted_only, where) ==
    IF ~WellFormed(where) THEN [ok |-> FALSE, rest |-> <<>>]
    ELSE [ok |-> TRUE,
          rest |-> Flatten([i \in 1..Len(rs) |->
              LET hits == SelectSeq(rs[i], LAMBDA e :
                              /\ deleted_only => IsDeleted(rs, e.nodeKey)
                              /\ MatchesAll(e.doc, where)
                              /\ KeptByFuture(rs, i, e))
              IN [j \in 1..Len(hits) |->
                     [revisionNumber |-> i,
                      revisionTimestamp |-> RevisionTimestamp(i),
                      revision |-> hits[j].doc]]])]

----------------------------------------------------------------------------
(* The handlers (src/src/app.py).  A handler is computed from the store and *)
(* its arguments: resp is the HTTP response (status, the exception raised,  *)
(* the body), calls the store calls it issued, revs the store afterwards.   *)

Response(op, key, status, exc, body) ==
    [op |-> op, key |-> key, status |-> status, exc |-> exc, body |-> body]

Outcome(resp, calls, rs) == [resp |-> resp, calls |-> calls, revs |-> rs]

\* ContactWithMeta(**result, key=result["nodeKey"])
ContactWithMeta(result) ==
    [key |-> result.nodeKey, hash |-> result.hash, contact |-> result.doc]

\* POST /contact/new: a Contact that fails validation is refused (422)
\* before the handler runs
new_contact_unvalidated(rs, contact) ==
    Outcome(Response("new_contact", 0, 204, "none", <<>>),
            <<"insert_one">>, insert_one(rs, contact))

new_contact(rs, contact) ==
    IF ~check_not_empty(contact)
    THEN Outcome(Response("new_contact", 0, 422, "ValidationError", <<>>), <<>>, rs)
    ELSE Outcome(Response("new_contact", 0, 204, "none", <<>>),
                 <<"insert_one">>, insert_one(rs, contact))

\* the read commits a revision: the latest one, once more
list_contacts_committing(rs, revision_id, revision_timestamp) ==
    LET rev == parse_revision(revision_id, revision_timestamp) IN
    IF ~rev.ok
    THEN Outcome(Response("list_contacts", 0, 500, "ValueError", <<>>), <<>>, rs)
    ELSE LET results == find_all(rs, rev.v) IN
         IF ~results.ok
         THEN Outcome(Response("list_contacts", 0, 500, "SirixServerError", <<>>),
                      <<"find_all">>, rs)
         ELSE Outcome(Response("list_contacts", 0, 200, "none",
                               [i \in 1..Len(results.rows) |-> ContactWithMeta(results.rows[i])]),
                      <<"find_all">>, Append(rs, rs[Len(rs)]))

\* GET /contact/list
list_contacts(rs, revision_id, revision_timestamp) ==
    LET rev == parse_revision(revision_id, revision_timestamp) IN
    IF ~rev.ok
    THEN Outcome(Response("list_contacts", 0, 500, "ValueError", <<>>), <<>>, rs)
    ELSE LET results == find_all(rs, rev.v) IN
         IF ~results.ok
         THEN Outcome(Response("list_contacts", 0, 500, "SirixServerError", <<>>),
                      <<"find_all">>, rs)
         ELSE Outcome(Response("list_contacts", 0, 200, "none",
                               [i \in 1..Len(results.rows) |-> ContactWithMeta(results.rows[i])]),
                      <<"find_all">>, rs)

\* '{term}' in an f-string: the text between two quotes, as it is
Quoted(text) == <<"'">> \o text \o <<"'">>

\* the comparison a query term is written as
QueryFilter(query_term) ==
    [fn |-> IF query_term.fuzzy THEN "contains" ELSE "eq",
     field |-> query_term.field,
     lit |-> Quoted(query_term.term)]

query_list(query_terms) ==
    [j \in 1..Len(query_terms) |-> QueryFilter(query_terms[j])]

\* the revision search_contacts opens, written into the query
open_resource_timestamp_first(revision_id, revision_timestamp) ==
    IF Truthy(revision_timestamp) THEN [fn |-> "jn:open", lit |-> Quoted(revision_timestamp.v)]
    ELSE IF Truthy(revision_id) THEN [fn |-> "jn:doc", arg |-> revision_id.v]
    ELSE [fn |-> "."]

open_resource(revision_id, revision_timestamp) ==
    IF Truthy(revision_id) THEN [fn |-> "jn:doc", arg |-> revision_id.v]
    ELSE IF Truthy(revision_timestamp) THEN [fn |-> "jn:open", lit |-> Quoted(revision_timestamp.v)]
    ELSE [fn |-> "."]

\* POST /contact/search
search_contacts_any_terms(rs, query_terms, revision_id, revision_timestamp) ==
    LET results == query_revision(rs, open_resource(revision_id, revision_timestamp),
                                  query_list(query_terms)) IN
    IF ~results.ok
    THEN Outcome(Response("search_contacts", 0, 500, "SirixServerError", <<>>), <<"query">>, rs)
    ELSE Outcome(Response("search_contacts", 0, 200, "none",
                          [i \in 1..Len(results.rest) |-> ContactWithMeta(results.rest[i])]),
                 <<"query">>, rs)

search_contacts(rs, query_terms, revision_id, revision_timestamp) ==
    IF Len(query_terms) = 0
    THEN Outcome(Response("search_contacts", 0, 400, "HTTPException", <<>>), <<>>, rs)
    ELSE LET results == query_revision(rs, open_resource(revision_id, revision_timestamp),
                                       query_list(query_terms)) IN
         IF ~results.ok
         THEN Outcome(Response("search_contacts", 0, 500, "SirixServerError", <<>>), <<"query">>, rs)
         ELSE Outcome(Response("search_contacts", 0, 200, "none",
                               [i \in 1..Len(results.rest) |-> ContactWithMeta(results.rest[i])]),
                      <<"query">>, rs)

\* the future of a record is not looked at: every hit is returned
query_all_times_no_dedup(rs, deleted_only, where) ==
    IF ~WellFormed(where) THEN [ok |-> FALSE, rest |-> <<>>]
    ELSE [ok |-> TRUE,
          rest |-> Flatten([i \in 1..Len(rs) |->
              LET hits == SelectSeq(rs[i], LAMBDA e :
                              /\ deleted_only => IsDeleted(rs, e.nodeKey)
                              /\ MatchesAll(e.doc, where))
              IN [j \in 1..Len(hits) |->
                     [revisionNumber |-> i,
                      revisionTimestamp |-> RevisionTimestamp(i),
                      revision |-> hits[j].doc]]])]

search_contacts_all_time_no_dedup(rs, query_terms, existing) ==
    LET results == query_all_times_no_dedup(rs, ~existing, query_list(query_terms)) IN
    IF ~results.ok
    THEN Outcome(Response("search_contacts_all_time", 0, 500, "SirixServerError", <<>>),
                 <<"query">>, rs)
    ELSE Outcome(Response("search_contacts_all_time", 0, 200, "none", results.rest),
                 <<"query">>, rs)

\* the existing flag is dropped: deleted contacts are never singled out
search_contacts_all_time_ignoring_existing(rs, query_terms, existing) ==
    LET results == query_all_times(rs, FALSE, query_list(query_terms)) IN
    IF ~results.ok
    THEN Outcome(Response("search_contacts_all_time", 0, 500, "SirixServerError", <<>>),
                 <<"query">>, rs)
    ELSE Outcome(Response("search_contacts_all_time", 0, 200, "none", results.rest),
                 <<"query">>, rs)

\* POST /contact/search/all-time: no terms is no where clause
search_contacts_all_time(rs, query_terms, existing) ==
    LET results == query_all_times(rs, ~existing, query_list(query_terms)) IN
    IF ~results.ok
    THEN Outcome(Response("search_contacts_all_time", 0, 500, "SirixServerError", <<>>),
                 <<"query">>, rs)
    ELSE Outcome(Response("search_contacts_all_time", 0, 200, "none", results.rest),
                 <<"query">>, rs)

\* the revision of the request is dropped: the contact is read in the
\* latest revision
view_contact_at_latest(rs, contact_key, revision_id, revision_timestamp) ==
    LET result == find_by_key(rs, contact_key, NoneV) IN
    IF ~result.ok
    THEN Outcome(Response("view_contact", contact_key, 500, "SirixServerError", <<>>),
                 <<"find_by_key">>, rs)
    ELSE Outcome(Response("view_contact", contact_key, 200, "none", <<result.doc>>),
                 <<"find_by_key">>, rs)

\* GET /contact/{contact_key}
view_contact(rs, contact_key, revision_id, revision_timestamp) ==
    LET rev == parse_revision(revision_id, revision_timestamp) IN
    IF ~rev.ok
    THEN Outcome(Response("view_contact", contact_key, 500, "ValueError", <<>>), <<>>, rs)
    ELSE LET result == find_by_key(rs, contact_key, rev.v) IN
         IF ~result.ok
         THEN Outcome(Response("view_contact", contact_key, 500, "SirixServerError", <<>>),
                      <<"find_by_key">>, rs)
         ELSE Outcome(Response("view_contact", contact_key, 200, "none", <<result.doc>>),
                      <<"find_by_key">>, rs)

\* the revision of the request is dropped: the history is asked of the
\* latest revision
view_contact_history_of_latest(rs, contact_key, revision_id, revision_timestamp, embed) ==
    LET results == IF embed THEN history_embed(rs, contact_key, NoneV)
                   ELSE history(rs, contact_key, NoneV)
        call == IF embed THEN "history_embed" ELSE "history"
    IN IF ~results.ok
       THEN Outcome(Response("view_contact_history", contact_key, 500, "SirixServerError", <<>>),
                    <<call>>, rs)
       ELSE Outcome(Response("view_contact_history", contact_key, 200, "none", results.rows),
                    <<call>>, rs)

\* GET /contact/{contact_key}/history
view_contact_history(rs, contact_key, revision_id, revision_timestamp, embed) ==
    LET rev == parse_revision(revision_id, revision_timestamp) IN
    IF ~rev.ok
    THEN Outcome(Response("view_contact_history", contact_key, 500, "ValueError", <<>>), <<>>, rs)
    ELSE LET results == IF embed THEN history_embed(rs, contact_key, rev.v)
                        ELSE history(rs, contact_key, rev.v)
             call == IF embed THEN "history_embed" ELSE "history"
         IN IF ~results.ok
            THEN Outcome(Response("view_contact_history", contact_key, 500, "SirixServerError", <<>>),
                         <<call>>, rs)
            ELSE Outcome(Response("view_contact_history", contact_key, 200, "none", results.rows),
                         <<call>>, rs)

\* PUT /contact/{contact_key}: the handler takes no hash, and writes the
\* contact's fields over the record's
update_contact_in_place(rs, contact_key, contact) ==
    IF ~check_not_empty(contact)
    THEN Outcome(Response("update_contact", contact_key, 422, "ValidationError", <<>>), <<>>, rs)
    ELSE LET r == update_by_key(rs, contact_key, contact) IN
         IF ~r.ok
         THEN Outcome(Response("update_contact", contact_key, 500, "SirixServerError", <<>>),
                      <<"update_by_key">>, rs)
         ELSE Outcome(Response("update_contact", contact_key, 204, "none", <<>>),
                      <<"update_by_key">>,
                      [rs EXCEPT ![Len(rs)] = r.revs[Len(r.revs)]])

\* the update is refused as a conflict when the contact was changed by the
\* revision committed last
update_contact_if_unchanged(rs, contact_key, contact) ==
    IF ~check_not_empty(contact)
    THEN Outcome(Response("update_contact", contact_key, 422, "ValidationError", <<>>), <<>>, rs)
    ELSE LET r == update_by_key(rs, contact_key, contact)
             changed == /\ Len(rs) > 1
                        /\ contact_key \in KeysOf(rs[Len(rs)])
                        /\ contact_key \in KeysOf(rs[Len(rs) - 1])
                        /\ DocOf(rs[Len(rs)], contact_key) # DocOf(rs[Len(rs) - 1], contact_key)
         IN IF changed
            THEN Outcome(Response("update_contact", contact_key, 409, "SirixServerError", <<>>),
                         <<"update_by_key">>, rs)
            ELSE IF ~r.ok
            THEN Outcome(Response("update_contact", contact_key, 500, "SirixServerError", <<>>),
                         <<"update_by_key">>, rs)
            ELSE Outcome(Response("update_contact", contact_key, 204, "none", <<>>),
                         <<"update_by_key">>, r.revs)

update_contact(rs, contact_key, contact) ==
    IF ~check_not_empty(contact)
    THEN Outcome(Response("update_contact", contact_key, 422, "ValidationError", <<>>), <<>>, rs)
    ELSE LET r == update_by_key(rs, contact_key, contact) IN
         IF ~r.ok
         THEN Outcome(Response("update_contact", contact_key, 500, "SirixServerError", <<>>),
                      <<"update_by_key">>, rs)
         ELSE Outcome(Response("update_contact", contact_key, 204, "none", <<>>),
                      <<"update_by_key">>, r.revs)

\* DELETE /contact/{contact_key}?hash=...: SirixServerError becomes 409
delete_contact_any_hash(rs, contact_key, hash) ==
    LET cur == rs[Len(rs)]
        etag == IF contact_key \in KeysOf(cur) THEN Hash(DocOf(cur, contact_key)) ELSE hash
        r == resource_delete(rs, contact_key, etag)
    IN IF ~r.ok
       THEN Outcome(Response("delete_contact", contact_key, 409, "SirixServerError", <<>>),
                    <<"delete">>, rs)
       ELSE Outcome(Response("delete_contact", contact_key, 204, "none", <<>>),
                    <<"delete">>, r.revs)

delete_contact(rs, contact_key, hash) ==
    LET r == resource_delete(rs, contact_key, hash) IN
    IF ~r.ok
    THEN Outcome(Response("delete_contact", contact_key, 409, "SirixServerError", <<>>),
                 <<"delete">>, rs)
    ELSE Outcome(Response("delete_contact", contact_key, 204, "none", <<>>),
                 <<"delete">>, r.revs)

----------------------------------------------------------------------------
(* Inputs *)

Callers == {"c1", "c2"}

\* the keys a request may name: the keys the store may assign
Keys == 1..(MaxRevs - 1)

InputContacts ==
    { Contact(StrV(<<"a", "b">>), StrV(<<"a">>), NoneV, NoneV),
      Contact(StrV(<<"'">>), NoneV, NoneV, NoneV),
      Contact(NoneV, NoneV, NoneV, NoneV),
      Contact(StrV(<<>>), NoneV, StrV(<<>>), NoneV) }

\* the hashes a delete may carry: the hash of any contact, and one of none
InputHashes == {Hash(c) : c \in InputContacts} \cup { <<>> }

\* revision_id: absent, zero, the number of a revision the store may hold
RevisionIds == {NoneV, IntV(0)} \cup {IntV(n) : n \in 1..MaxRevs}

TsGood == <<"2", "0", "2", "0", "-", "0", "1", "-", "0", "1", "T",
            "0", "0", ":", "0", "0", ":", "0", "3", ".", "0", "0", "0", "0", "0", "0">>

TsNoTime == <<"2", "0", "2", "0", "-", "0", "1", "-", "0", "1">>

TsNoSuchDay == <<"2", "0", "2", "0", "-", "0", "2", "-", "3", "0", "T",
                 "0", "0", ":", "0", "0", ":", "0", "3", ".", "0">>

TsShortFields == <<"2", "0", "2", "0", "-", "1", "-", "1", "T", "0", ":", "0", ":", "2", ".", "5">>

\* revision_timestamp as the handlers are called with: absent, empty, in the
\* format, not in the format
Timestamps == {NoneV, StrV(<<>>), StrV(TsGood), StrV(TsNoTime)}

\* revision_timestamp as the selector is given: those, one with short
\* fields, and one of a day that does not exist
AllTimestamps == Timestamps \cup {StrV(TsShortFields), StrV(TsNoSuchDay)}

QueryTerm(field, term, fuzzy) == [field |-> field, term |-> term, fuzzy |-> fuzzy]

\* the lists of query terms a search is given
InputQueries ==
    { <<>>,
      <<QueryTerm("name", <<"a">>, TRUE)>>,
      <<QueryTerm("name", <<"a">>, FALSE)>>,
      <<QueryTerm("name", <<"a", "b">>, FALSE)>>,
      <<QueryTerm("phone", <<>>, TRUE)>>,
      <<QueryTerm("nick", <<"a">>, TRUE)>>,
      <<QueryTerm("name", <<"'">>, FALSE)>>,
      <<QueryTerm("name", <<"'", "'">>, FALSE)>>,
      <<QueryTerm("name", <<"b">>, TRUE), QueryTerm("phone", <<"a">>, FALSE)>>,
      <<QueryTerm("name", <<"a">>, TRUE), QueryTerm("phone", <<"b">>, FALSE)>> }

----------------------------------------------------------------------------
(* The system *)

\* key, hash: the contact the caller read and its hash then; rev: the latest
\* revision when it read; op, res: the mutation it issued since and its
\* outcome; seen: the latest revision when it issued it
NoSession == [key |-> 0, hash |-> <<>>, rev |-> 0, op |-> "none", res |-> "none", seen |-> 0]

Init ==
    /\ revs = << <<>> >>
    /\ sess = [c \in Callers |-> NoSession]
    /\ last = Response("init", 0, 0, "none", <<>>)

\* a handler call: the store and the response after it.  A call that would
\* commit a revision beyond MaxRevs is not explored.
Handle(out) ==
    /\ Len(out.revs) <= MaxRevs
    /\ revs' = out.revs
    /\ last' = out.resp

Result(status) == IF status = 204 THEN "ok" ELSE "failed"

NewContact(contact) ==
    /\ Handle(new_contact(revs, contact))
    /\ UNCHANGED sess

UpdateContact(contact_key, contact) ==
    /\ Handle(update_contact(revs, contact_key, contact))
    /\ UNCHANGED sess

DeleteContact(contact_key, hash) ==
    /\ Handle(delete_contact(revs, contact_key, hash))
    /\ UNCHANGED sess

\* caller c lists the contacts and keeps the key and the hash of one of them
CallerReads(c, i) ==
    LET out == list_contacts(revs, NoneV, NoneV) IN
    /\ i \in 1..Len(out.resp.body)
    /\ Handle(out)
    /\ sess' = [sess EXCEPT ![c] = [key |-> out.resp.body[i].key,
                                    hash |-> out.resp.body[i].hash,
                                    rev |-> Len(revs),
                                    op |-> "none", res |-> "none", seen |-> 0]]

\* caller c updates the contact it read; the request has no place for the hash
CallerUpdates(c, contact) ==
    /\ sess[c].key # 0 /\ sess[c].op = "none"
    /\ Handle(update_contact(revs, sess[c].key, contact))
    /\ sess' = [sess EXCEPT ![c].op = "update", ![c].res = Result(last'.status),
                            ![c].seen = Len(revs)]

\* caller c deletes the contact it read, with the hash it read
CallerDeletes(c) ==
    /\ sess[c].key # 0 /\ sess[c].op = "none"
    /\ Handle(delete_contact(revs, sess[c].key, sess[c].hash))
    /\ sess' = [sess EXCEPT ![c].op = "delete", ![c].res = Result(last'.status),
                            ![c].seen = Len(revs)]

ListContacts(revision_id, revision_timestamp) ==
    /\ Handle(list_contacts(revs, revision_id, revision_timestamp))
    /\ UNCHANGED sess

SearchContacts(query_terms, revision_id, revision_timestamp) ==
    /\ Handle(search_contacts(revs, query_terms, revision_id, revision_timestamp))
    /\ UNCHANGED sess

SearchContactsAllTime(query_terms, existing) ==
    /\ Handle(search_contacts_all_time(revs, query_terms, existing))
    /\ UNCHANGED sess

ViewContact(contact_key, revision_id, revision_timestamp) ==
    /\ Handle(view_contact(revs, contact_key, revision_id, revision_timestamp))
    /\ UNCHANGED sess

ViewContactHistory(contact_key, revision_id, revision_timestamp, embed) ==
    /\ Handle(view_contact_history(revs, contact_key, revision_id, revision_timestamp, embed))
    /\ UNCHANGED sess

\* every handler, called with any input
Next ==
    \/ \E contact \in InputContacts : NewContact(contact)
    \/ \E k \in Keys, contact \in InputContacts : UpdateContact(k, contact)
    \/ \E k \in Keys, hash \in InputHashes : DeleteContact(k, hash)
    \/ \E rid \in RevisionIds, ts \in Timestamps : ListContacts(rid, ts)
    \/ \E q \in InputQueries, rid \in RevisionIds, ts \in Timestamps : SearchContacts(q, rid, ts)
    \/ \E q \in InputQueries, existing \in BOOLEAN : SearchContactsAllTime(q, existing)
    \/ \E k \in Keys, rid \in RevisionIds, ts \in Timestamps : ViewContact(k, rid, ts)
    \/ \E k \in Keys, rid \in RevisionIds, ts \in Timestamps, embed \in BOOLEAN :
          ViewContactHistory(k, rid, ts, embed)

Spec == Init /\ [][Next]_vars

\* two callers that read a contact and then change it, beside new contacts
NextCallers ==
    \/ \E contact \in InputContacts : NewContact(contact)
    \/ \E c \in Callers, i \in 1..MaxRevs : CallerReads(c, i)
    \/ \E c \in Callers, contact \in InputContacts : CallerUpdates(c, contact)
    \/ \E c \in Callers : CallerDeletes(c)

SpecCallers == Init /\ [][NextCallers]_vars

----------------------------------------------------------------------------
(* The revision selector on its own: a request's revision_id and           *)
(* revision_timestamp, resolved by parse_revision (list, view, history) or  *)
(* written into the query by search_contacts.                               *)

InitSelector ==
    /\ revs = << <<>> >>
    /\ sess = [c \in Callers |-> NoSession]
    /\ last \in {[op |-> "request", revision_id |-> rid, revision_timestamp |-> ts] :
                    rid \in RevisionIds, ts \in AllTimestamps}

ParseRevision ==
    /\ last.op = "request"
    /\ last' = [op |-> "parse_revision",
                revision_id |-> last.revision_id,
                revision_timestamp |-> last.revision_timestamp,
                out |-> parse_revision(last.revision_id, last.revision_timestamp)]
    /\ UNCHANGED <<revs, sess>>

OpenResourceOfSearch ==
    /\ last.op = "request"
    /\ last' = [op |-> "open_resource",
                revision_id |-> last.revision_id,
                revision_timestamp |-> last.revision_timestamp,
                out |-> open_resource(last.revision_id, last.revision_timestamp)]
    /\ UNCHANGED <<revs, sess>>

NextSelector == ParseRevision \/ OpenResourceOfSearch

SpecSelector == InitSelector /\ [][NextSelector]_vars

----------------------------------------------------------------------------
(* The history of one contact, written as planned: the contents the        *)
(* contact is to have in its successive revisions are drawn first, the      *)
(* contact is created with the first and updated with each of the others,   *)
(* and then its history is viewed or the store is searched over all times.  *)

PlanContacts ==
    { Contact(StrV(<<"a">>), NoneV, NoneV, NoneV),
      Contact(StrV(<<"b">>), NoneV, NoneV, NoneV),
      Contact(StrV(<<"a">>), StrV(<<"c">>), NoneV, NoneV) }

Plans == UNION {[1..n -> PlanContacts] : n \in 1..MaxPlan}

\* no terms, and terms that hold of some of the planned contents
PlanQueries ==
    { <<>>,
      <<QueryTerm("name", <<"a">>, FALSE)>>,
      <<QueryTerm("phone", <<"c">>, TRUE)>> }

InitReducer ==
    /\ revs = << <<>> >>
    /\ sess = [c \in Callers |-> NoSession]
    /\ last \in {[op |-> "plan", docs |-> docs] : docs \in Plans}

\* the contact is created with the first planned content
NewPlanned ==
    /\ last.op = "plan"
    /\ Len(revs) = 1
    /\ revs' = new_contact(revs, last.docs[1]).revs
    /\ UNCHANGED <<sess, last>>

\* the contact is updated with its next planned content
UpdatePlanned ==
    /\ last.op = "plan"
    /\ Len(revs) \in 2..Len(last.docs)
    /\ revs' = update_contact(revs, 1, last.docs[Len(revs)]).revs
    /\ UNCHANGED <<sess, last>>

HistoryOfPlanned(embed) ==
    /\ last.op = "plan"
    /\ Len(revs) = Len(last.docs) + 1
    /\ last' = [op |-> "view_contact_history", docs |-> last.docs, embed |-> embed,
                out |-> view_contact_history(revs, 1, NoneV, NoneV, embed).resp]
    /\ UNCHANGED <<revs, sess>>

AllTimeOfPlanned(query_terms) ==
    /\ last.op = "plan"
    /\ Len(revs) = Len(last.docs) + 1
    /\ last' = [op |-> "search_contacts_all_time", docs |-> last.docs,
                query_terms |-> query_terms,
                out |-> search_contacts_all_time(revs, query_terms, TRUE).resp]
    /\ UNCHANGED <<revs, sess>>

NextReducer ==
    \/ NewPlanned
    \/ UpdatePlanned
    \/ \E embed \in BOOLEAN : HistoryOfPlanned(embed)
    \/ \E q \in PlanQueries : AllTimeOfPlanned(q)

SpecReducer == InitReducer /\ [][NextReducer]_vars

----------------------------------------------------------------------------
(* Properties *)

Latest == revs[Len(revs)]

\* the keys of the contacts a response lists
BodyKeys(resp) == {resp.body[i].key : i \in 1..Len(resp.body)}

\* the revision numbers a history or an all-time search returns
BodyRevisions(resp) == {resp.body[i].revisionNumber : i \in 1..Len(resp.body)}

\* the contact was in the store and is not in its latest revision
Deleted(k) == k \in AllKeys(revs) /\ k \notin KeysOf(Latest)

\* the revisions in which the contact is
LiveAt(k) == {i \in 1..Len(revs) : k \in KeysOf(revs[i])}

\* a query term holds of a contact: the field is a string that equals the
\* term, or, for a fuzzy term, contains it
TermHolds(doc, t) ==
    /\ t.field \in DOMAIN doc
    /\ doc[t.field].tag = "str"
    /\ IF t.fuzzy THEN Contains(doc[t.field].v, t.term) ELSE doc[t.field].v = t.term

\* the hash the caller carries is the hash the contact had when the caller
\* issued its mutation
CarriedHashWasCurrent(c) ==
    /\ sess[c].key \in KeysOf(revs[sess[c].seen])
    /\ Hash(DocOf(revs[sess[c].seen], sess[c].key)) = sess[c].hash

(* C1: a caller's update of a contact at hash H1 succeeds and commits a new *)
(* revision, and an update that carries H1 after the contact's hash has     *)
(* changed fails: an update succeeds only if the hash its caller read is    *)
(* still the contact's hash.                                                *)
C1_StaleUpdateFails ==
    \A c \in Callers :
        (sess[c].op = "update" /\ sess[c].res = "ok") =>
            /\ Len(revs) > sess[c].seen
            /\ CarriedHashWasCurrent(c)

(* C2: delete(key, hash) is refused with 409 whenever the contact is not in *)
(* the latest revision or its hash is not the given one, and then the store *)
(* is as before; when the hash is the contact's the delete succeeds and     *)
(* commits exactly one revision, which has every other contact and not this *)
(* one.                                                                     *)
C2_DeleteChecksHash ==
    \A k \in Keys, h \in InputHashes :
        LET out == delete_contact(revs, k, h)
            current == k \in KeysOf(Latest) /\ Hash(DocOf(Latest, k)) = h
        IN IF current
           THEN /\ out.resp.status = 204
                /\ Len(out.revs) = Len(revs) + 1
                /\ SubSeq(out.revs, 1, Len(revs)) = revs
                /\ KeysOf(out.revs[Len(out.revs)]) = KeysOf(Latest) \ {k}
                /\ \A j \in KeysOf(Latest) \ {k} :
                      DocOf(out.revs[Len(out.revs)], j) = DocOf(Latest, j)
           ELSE /\ out.resp.status = 409
                /\ out.revs = revs

\* a delete with a hash that is not the contact's was refused, and the
\* contact is still there
C2_Witness ==
    /\ last.op = "delete_contact" /\ last.status = 409
    /\ last.key \in KeysOf(Latest)
    /\ \E k \in KeysOf(Latest), h \in InputHashes : delete_contact(revs, k, h).resp.status = 204

\* the mutation of caller c succeeded and left the contact with another
\* hash than the one c read, or without the contact
ChangedTheContact(c) ==
    /\ sess[c].res = "ok"
    /\ \/ sess[c].op = "delete"
       \/ Hash(DocOf(revs[sess[c].seen + 1], sess[c].key)) # sess[c].hash

(* C3: of two callers that read the same contact in the same revision, so   *)
(* with the same hash, and then each update or delete it with that hash, at *)
(* most one succeeds: once the first has changed the contact, the other,    *)
(* whose hash is now stale, fails.                                          *)
C3_AtMostOneSucceeds ==
    \A c1, c2 \in Callers :
        ( /\ c1 # c2
          /\ sess[c1].key # 0 /\ sess[c1].key = sess[c2].key
          /\ sess[c1].rev = sess[c2].rev
          /\ sess[c1].op # "none" /\ sess[c2].op # "none"
          /\ sess[c1].seen < sess[c2].seen
          /\ ChangedTheContact(c1) )
        => sess[c2].res # "ok"

(* C4 as stated: once a contact is deleted, the list and every search of    *)
(* the latest revision leave it out, its history (asked without a revision) *)
(* still returns its revisions, and it is still read at its old revisions.  *)
C4_HistoryOfDeleted ==
    \A k \in Keys : Deleted(k) =>
        /\ k \notin BodyKeys(list_contacts(revs, NoneV, NoneV).resp)
        /\ \A q \in InputQueries : k \notin BodyKeys(search_contacts(revs, q, NoneV, NoneV).resp)
        /\ LET h == view_contact_history(revs, k, NoneV, NoneV, FALSE).resp IN
              h.status = 200 /\ {i \in LiveAt(k) : i - 1 \notin LiveAt(k)} \subseteq BodyRevisions(h)
        /\ \A r \in LiveAt(k) :
              view_contact(revs, k, IntV(r), NoneV).resp.body = <<DocOf(revs[r], k)>>

(* C4, amended: once a contact is deleted, the list and every search of the *)
(* latest revision leave it out; it is still read at each revision it was   *)
(* in; and its history, asked at any revision it was in, returns in order   *)
(* the revisions in which it was created or its hash changed, all of them   *)
(* from before the delete.  Asked at the latest revision the history fails. *)
C4_DeletedStaysInThePast ==
    \A k \in Keys : Deleted(k) =>
        /\ k \notin BodyKeys(list_contacts(revs, NoneV, NoneV).resp)
        /\ \A q \in InputQueries : k \notin BodyKeys(search_contacts(revs, q, NoneV, NoneV).resp)
        /\ view_contact_history(revs, k, NoneV, NoneV, FALSE).resp.status = 500
        /\ \A r \in LiveAt(k) :
              /\ view_contact(revs, k, IntV(r), NoneV).resp.body = <<DocOf(revs[r], k)>>
              /\ \A embed \in BOOLEAN :
                    LET h == view_contact_history(revs, k, IntV(r), NoneV, embed).resp
                        changes == {i \in LiveAt(k) :
                                      \/ i - 1 \notin LiveAt(k)
                                      \/ Hash(DocOf(revs[i], k)) # Hash(DocOf(revs[i - 1], k))}
                    IN /\ h.status = 200
                       /\ BodyRevisions(h) = changes
                       /\ Len(h.body) = Cardinality(changes)
                       /\ \A j \in 1..Len(h.body) :
                             /\ h.body[j].revisionNumber < Len(revs)
                             /\ j > 1 => h.body[j - 1].revisionNumber < h.body[j].revisionNumber
                             /\ embed => h.body[j].revision = DocOf(revs[h.body[j].revisionNumber], k)

\* a contact that was updated to another content has just been deleted
C4_Witness ==
    /\ last.op = "delete_contact" /\ last.status = 204
    /\ Deleted(last.key)
    /\ Cardinality({Hash(DocOf(revs[i], last.key)) : i \in LiveAt(last.key)}) > 1

(* C5: no handler call, successful or failed, changes a committed revision: *)
(* a call that changes the store adds one revision after the others, and    *)
(* the list and every contact read at an earlier revision are the same      *)
(* after the call as before.                                                *)
C5_AppendOnly ==
    [][ revs' # revs =>
          /\ Len(revs') = Len(revs) + 1
          /\ \A i \in 1..Len(revs) :
                /\ revs'[i] = revs[i]
                /\ list_contacts(revs', IntV(i), NoneV).resp = list_contacts(revs, IntV(i), NoneV).resp
                /\ \A k \in Keys :
                      view_contact(revs', k, IntV(i), NoneV).resp = view_contact(revs, k, IntV(i), NoneV).resp
      ]_vars

\* an update has been committed on top of the revision that it changed
C5_Witness ==
    /\ last.op = "update_contact" /\ last.status = 204
    /\ Len(revs) >= 3
    /\ DocOf(Latest, last.key) # DocOf(revs[Len(revs) - 1], last.key)

C7_BadTimestampNoQuery ==
    \A rid \in {NoneV, IntV(0)}, ts \in Timestamps :
        (Truthy(ts) /\ ~strptime(ts.v).ok) =>
            \A out \in
                {list_contacts(revs, rid, ts)}
                \cup {view_contact(revs, k, rid, ts) : k \in Keys}
                \cup {view_contact_history(revs, k, rid, ts, embed) : k \in Keys, embed \in BOOLEAN}
                \cup {search_contacts(revs, q, rid, ts) : q \in InputQueries \ {<<>>}} :
                out.resp.exc = "ValueError" /\ out.calls = <<>>

(* C8: for every non-empty list of query terms and every revision, the      *)
(* search returns exactly the contacts of that revision of which every term *)
(* holds, each once.                                                        *)
C8_SearchIsExact ==
    \A q \in InputQueries \ {<<>>}, rid \in {NoneV} \cup {IntV(n) : n \in 1..Len(revs)} :
        LET r == IF rid.tag = "int" THEN rid.v ELSE Len(revs)
            out == search_contacts(revs, q, rid, NoneV)
            expected == {k \in KeysOf(revs[r]) :
                            \A j \in 1..Len(q) : TermHolds(DocOf(revs[r], k), q[j])}
        IN /\ BodyKeys(out.resp) = expected
           /\ Len(out.resp.body) = Cardinality(expected)

(* C9: a search with an empty list of terms is refused (400), whatever the  *)
(* revision arguments, and no query is sent to the store.                   *)
C9_EmptySearchRefused ==
    \A rid \in RevisionIds, ts \in AllTimestamps :
        LET out == search_contacts(revs, <<>>, rid, ts) IN
        /\ out.resp.status = 400
        /\ out.resp.exc = "HTTPException"
        /\ out.resp.body = <<>>
        /\ out.calls = <<>>
        /\ out.revs = revs

\* an empty search has been refused while the store has contacts
C9_Witness ==
    /\ last.op = "search_contacts" /\ last.status = 400
    /\ Latest # <<>>

\* the revisions of contacts an all-time search scans: all of them, or with
\* existing false those of the contacts now deleted
Scanned(existing) ==
    {p \in (1..Len(revs)) \X Keys :
        /\ p[2] \in KeysOf(revs[p[1]])
        /\ existing \/ Deleted(p[2])}

\* the contact's next revision has the same hash
SameInNext(i, k) ==
    /\ i < Len(revs)
    /\ k \in KeysOf(revs[i + 1])
    /\ Hash(DocOf(revs[i + 1], k)) = Hash(DocOf(revs[i], k))

HistoricalContact(i, k) ==
    [revisionNumber |-> i,
     revisionTimestamp |-> RevisionTimestamp(i),
     revision |-> DocOf(revs[i], k)]

(* C10 as stated: an all-time search with no terms returns every revision   *)
(* of every contact it scans.                                               *)
C10_EveryRevisionReturned ==
    \A existing \in BOOLEAN :
        LET body == search_contacts_all_time(revs, <<>>, existing).resp.body IN
        \A p \in Scanned(existing) : HistoricalContact(p[1], p[2]) \in Range(body)

(* C10, amended: an all-time search with no terms returns, of every contact *)
(* it scans, exactly the revisions whose hash is not the hash of the        *)
(* contact's next revision (the last revision of each run of unchanged      *)
(* content): a revision is left out only when the next one has the same     *)
(* content, so every content a scanned contact ever had is returned.        *)
C10_LastOfEachRunReturned ==
    \A existing \in BOOLEAN :
        LET out == search_contacts_all_time(revs, <<>>, existing)
            body == out.resp.body
            kept == {p \in Scanned(existing) : ~SameInNext(p[1], p[2])}
        IN /\ out.resp.status = 200
           /\ Range(body) = {HistoricalContact(p[1], p[2]) : p \in kept}
           /\ \A i \in 1..Len(revs) :
                 Cardinality({j \in 1..Len(body) : body[j].revisionNumber = i})
                    = Cardinality({p \in kept : p[1] = i})
           /\ \A p \in Scanned(existing) :
                 \E j \in 1..Len(body) :
                    /\ body[j].revisionNumber >= p[1]
                    /\ body[j].revision = DocOf(revs[p[1]], p[2])

\* an all-time search with no terms has returned fewer revisions than it
\* scanned
C10_Witness ==
    /\ last.op = "search_contacts_all_time" /\ last.status = 200
    /\ last.body = search_contacts_all_time(revs, <<>>, TRUE).resp.body
    /\ last.body # <<>>
    /\ Len(last.body) < Cardinality(Scanned(TRUE))

\* the scanned revisions of contacts that an all-time search of the terms
\* returns: the contact matches there, and its next revision differs
Hits(query_terms, existing) ==
    {p \in Scanned(existing) :
        /\ WellFormed(query_list(query_terms))
        /\ MatchesAll(DocOf(revs[p[1]], p[2]), query_list(query_terms))
        /\ ~SameInNext(p[1], p[2])}

\* the records of a response are the given revisions of contacts, each once
ReturnsExactly(resp, hits) ==
    /\ Range(resp.body) = {HistoricalContact(p[1], p[2]) : p \in hits}
    /\ \A i \in 1..Len(revs) :
          Cardinality({j \in 1..Len(resp.body) : resp.body[j].revisionNumber = i})
             = Cardinality({p \in hits : p[1] = i})

(* C11 as stated: the two modes of the all-time search are exclusive: with  *)
(* existing true no returned revision is of a contact now deleted, with     *)
(* existing false every returned revision is of one, and no revision is     *)
(* returned in both modes.                                                  *)
C11_ModesExclusive ==
    \A q \in InputQueries :
        LET live == search_contacts_all_time(revs, q, TRUE).resp
            gone == search_contacts_all_time(revs, q, FALSE).resp
        IN /\ ReturnsExactly(live, {p \in Hits(q, TRUE) : ~Deleted(p[2])})
           /\ ReturnsExactly(gone, {p \in Hits(q, TRUE) : Deleted(p[2])})
           /\ Range(live.body) \cap Range(gone.body) = {}

(* C11, amended: with existing false the all-time search returns revisions  *)
(* of the contacts now deleted only; with existing true it returns the      *)
(* revisions of every contact, deleted or not, so what the first mode       *)
(* returns the second returns as well.                                      *)
C11_ExistingAddsTheLive ==
    \A q \in InputQueries :
        LET all == search_contacts_all_time(revs, q, TRUE).resp
            gone == search_contacts_all_time(revs, q, FALSE).resp
        IN /\ all.status = gone.status
           /\ all.status = 200 =>
                /\ ReturnsExactly(all, Hits(q, TRUE))
                /\ ReturnsExactly(gone, {p \in Hits(q, TRUE) : Deleted(p[2])})
                /\ Range(gone.body) \subseteq Range(all.body)

\* an all-time search of the deleted contacts has returned some revisions,
\* while the store also has a contact that is not deleted
C11_Witness ==
    /\ last.op = "search_contacts_all_time" /\ last.status = 200
    /\ last.body = search_contacts_all_time(revs, <<>>, FALSE).resp.body
    /\ last.body # <<>>
    /\ Len(last.body) < Len(search_contacts_all_time(revs, <<>>, TRUE).resp.body)
    /\ Latest # <<>>

\* the positions 1..n of a sequence, in order
Positions(q) == [i \in 1..Len(q) |-> i]

\* the planned contents have the hashes h1, h1, h2, h2, h2, h3
PlanOfTheExample(docs) ==
    /\ Len(docs) = 6
    /\ docs[1] = docs[2]
    /\ docs[3] # docs[2] /\ docs[3] = docs[4] /\ docs[4] = docs[5]
    /\ docs[6] # docs[5] /\ docs[6] # docs[1]

\* the places, counted from 0, of the revisions a response returns among
\* the revisions of the planned contact (the first is revision 2 of the store)
IndicesOf(resp) == [j \in 1..Len(resp.body) |-> resp.body[j].revisionNumber - 2]

(* C12: the history of a contact is, in ascending order, exactly the        *)
(* revisions of it that are its first or whose hash is not the hash of the  *)
(* revision before; for the hashes h1, h1, h2, h2, h2, h3 these are the     *)
(* revisions at the places 0, 2 and 5.                                      *)
C12_HistoryIsChangePoints ==
    last.op = "view_contact_history" =>
        LET docs == last.docs
            kept == SelectSeq(Positions(docs),
                              LAMBDA i : i = 1 \/ Hash(docs[i]) # Hash(docs[i - 1]))
        IN /\ last.out.status = 200
           /\ IndicesOf(last.out) = [j \in 1..Len(kept) |-> kept[j] - 1]
           /\ last.embed =>
                 \A j \in 1..Len(kept) : last.out.body[j].revision = docs[kept[j]]
           /\ PlanOfTheExample(docs) => IndicesOf(last.out) = <<0, 2, 5>>

\* the history of a contact written with the hashes of the example has been
\* viewed
C12_Witness ==
    /\ last.op = "view_contact_history"
    /\ PlanOfTheExample(last.docs)
    /\ Len(last.out.body) = 3

(* C13 as stated: the all-time search returns, of the revisions of a        *)
(* contact of which the terms hold, taken in order, those that are the last *)
(* of them or whose hash is not the hash of the next of them.               *)
C13_ForwardOverTheHits ==
    last.op = "search_contacts_all_time" =>
        LET docs == last.docs
            hits == SelectSeq(Positions(docs), LAMBDA i :
                        \A t \in 1..Len(last.query_terms) : TermHolds(docs[i], last.query_terms[t]))
            kept == SelectSeq(Positions(hits), LAMBDA j :
                        j = Len(hits) \/ Hash(docs[hits[j]]) # Hash(docs[hits[j + 1]]))
        IN /\ last.out.status = 200
           /\ IndicesOf(last.out) = [j \in 1..Len(kept) |-> hits[kept[j]] - 1]

(* C13, amended: the all-time search returns, of the revisions of a contact *)
(* of which the terms hold, those that are the contact's last revision or   *)
(* whose hash is not the hash of the contact's next revision, whether the   *)
(* terms hold of that next revision or not; with no terms and the hashes    *)
(* h1, h1, h2, h2, h2, h3 these are the revisions at the places 1, 4 and 5. *)
C13_ForwardOverTheRevisions ==
    last.op = "search_contacts_all_time" =>
        LET docs == last.docs
            kept == SelectSeq(Positions(docs), LAMBDA i :
                        /\ \A t \in 1..Len(last.query_terms) :
                              TermHolds(docs[i], last.query_terms[t])
                        /\ i = Len(docs) \/ Hash(docs[i]) # Hash(docs[i + 1]))
        IN /\ last.out.status = 200
           /\ IndicesOf(last.out) = [j \in 1..Len(kept) |-> kept[j] - 1]
           /\ \A j \in 1..Len(kept) : last.out.body[j].revision = docs[kept[j]]
           /\ (PlanOfTheExample(docs) /\ last.query_terms = <<>>) =>
                 IndicesOf(last.out) = <<1, 4, 5>>

\* the store has been searched over all times with a term that holds of
\* two revisions of a contact and not of the revision between them
C13_Witness ==
    /\ last.op = "search_contacts_all_time"
    /\ last.query_terms # <<>>
    /\ \E i \in 2..(Len(last.docs) - 1) :
          /\ {i - 2, i} \subseteq Range(IndicesOf(last.out))
          /\ i - 1 \notin Range(IndicesOf(last.out))
          /\ last.docs[i - 1] = last.docs[i + 1]

\* the store in which a contact was created and updated with the contents
RECURSIVE StoreFrom(_, _, _)
StoreFrom(rs, docs, i) ==
    IF i > Len(docs) THEN rs
    ELSE StoreFrom(IF i = 1 THEN new_contact(rs, docs[i]).revs
                   ELSE update_contact(rs, 1, docs[i]).revs,
                   docs, i + 1)

StoreOf(docs) == StoreFrom(<< <<>> >>, docs, 1)

\* the contents of the revisions a history returns
ContentsOf(body) == [j \in 1..Len(body) |-> body[j].revision]

(* C14: the history of a history is that history: when a contact is given,  *)
(* revision by revision, the contents its history returned, the history of  *)
(* that contact returns every one of its revisions, with the same contents  *)
(* in the same order.                                                       *)
C14_ReducedStaysReduced ==
    (last.op = "view_contact_history" /\ last.embed) =>
        LET once == ContentsOf(last.out.body)
            again == view_contact_history(StoreOf(once), 1, NoneV, NoneV, TRUE).resp
        IN /\ again.status = 200
           /\ ContentsOf(again.body) = once
           /\ IndicesOf(again) = [j \in 1..Len(once) |-> j - 1]

\* a history that left revisions out and kept more than two has been viewed
C14_Witness ==
    /\ last.op = "view_contact_history" /\ last.embed
    /\ Len(last.out.body) > 2
    /\ Len(last.out.body) < Len(last.docs)

\* the request bodies of a contact: each field absent, empty, or a text
Documents == [Fields -> {NoneV, StrV(<<>>), StrV(<<"a">>)}]

\* every field of the document is null or empty
AllEmpty(doc) == \A f \in Fields : doc[f] \in {NoneV, StrV(<<>>)}

\* the call was refused by the validation of the contact, and did nothing
RefusedAsInvalid(out) ==
    /\ out.resp.status = 422
    /\ out.resp.exc = "ValidationError"
    /\ out.calls = <<>>
    /\ out.revs = revs

(* C15: a contact whose fields are all null or empty is refused as invalid, *)
(* by new_contact and by update_contact of any key, and the store is then   *)
(* as before; a contact with a field that is not empty is never refused as  *)
(* invalid: it is inserted, and it is written over any contact that is in   *)
(* the latest revision.                                                     *)
C15_EmptyContactRefused ==
    \A doc \in Documents :
        LET ins == new_contact(revs, doc) IN
        IF AllEmpty(doc)
        THEN /\ RefusedAsInvalid(ins)
             /\ \A k \in Keys : RefusedAsInvalid(update_contact(revs, k, doc))
        ELSE /\ ins.resp.status = 204
             /\ Len(ins.revs) = Len(revs) + 1
             /\ \A k \in Keys :
                   LET upd == update_contact(revs, k, doc) IN
                   /\ upd.resp.exc # "ValidationError"
                   /\ k \in KeysOf(Latest) =>
                         /\ upd.resp.status = 204
                         /\ DocOf(upd.revs[Len(upd.revs)], k) = doc

\* an update of a contact that is in the store has been refused as invalid
C15_Witness ==
    /\ last.op = "update_contact" /\ last.status = 422
    /\ last.key \in KeysOf(Latest)
    /\ Len(revs) > 2

(* C16: an update carries no hash and is applied to the latest revision     *)
(* whatever was committed since its caller read the contact: for a contact  *)
(* that is in the latest revision and a valid body it succeeds, is never    *)
(* refused as a conflict, and commits one revision in which the contact has *)
(* the same key and the new content and every other contact is as before.   *)
C16_LastWriterWins ==
    \A c \in Callers :
        /\ (sess[c].key # 0 /\ sess[c].key \in KeysOf(Latest)) =>
              \A doc \in {d \in InputContacts : check_not_empty(d)} :
                  LET out == update_contact(revs, sess[c].key, doc)
                      new == out.revs[Len(out.revs)]
                  IN /\ out.resp.status = 204
                     /\ Len(out.revs) = Len(revs) + 1
                     /\ SubSeq(out.revs, 1, Len(revs)) = revs
                     /\ KeysOf(new) = KeysOf(Latest)
                     /\ DocOf(new, sess[c].key) = doc
                     /\ \A j \in KeysOf(Latest) \ {sess[c].key} : DocOf(new, j) = DocOf(Latest, j)
        /\ \A doc \in InputContacts :
              sess[c].key # 0 => update_contact(revs, sess[c].key, doc).resp.status # 409
        /\ (sess[c].op = "update" /\ sess[c].res = "ok") =>
              /\ Len(revs) > sess[c].seen
              /\ DocOf(revs[sess[c].seen + 1], sess[c].key) \in InputContacts

\* a caller's update has succeeded although the contact had been changed by
\* another caller since it was read
C16_Witness ==
    \E c \in Callers :
        /\ sess[c].op = "update" /\ sess[c].res = "ok"
        /\ sess[c].seen > sess[c].rev
        /\ Hash(DocOf(revs[sess[c].seen], sess[c].key)) # sess[c].hash
        /\ Hash(DocOf(revs[sess[c].seen + 1], sess[c].key)) # Hash(DocOf(revs[sess[c].seen], sess[c].key))

\* how a call failed: the status of the response and the exception raised
Condition(resp) == <<resp.status, resp.exc>>

\* the conditions of the other failures: an invalid contact, a timestamp
\* that is not in the format, a search without terms, a delete with a hash
\* that is not the contact's
OtherConditions ==
    {Condition(new_contact(revs, doc).resp) : doc \in {d \in Documents : AllEmpty(d)}}
    \cup {Condition(view_contact(revs, k, NoneV, StrV(TsNoTime)).resp) : k \in Keys}
    \cup {Condition(search_contacts(revs, <<>>, NoneV, NoneV).resp)}
    \cup {Condition(delete_contact(revs, k, <<>>).resp) : k \in Keys}

ReadOps == {"list_contacts", "view_contact", "view_contact_history",
            "search_contacts", "search_contacts_all_time"}

KindOfRevision(rev) ==
    CASE rev.tag = "int" -> "number"
      [] rev.tag = "datetime" -> "timestamp"
      [] OTHER -> "latest"

\* the kind of revision the query of search_contacts opens
KindOfOpen(open) ==
    CASE open.fn = "jn:doc" -> "number"
      [] open.fn = "jn:open" -> "timestamp"
      [] OTHER -> "latest"

(* C19: for every revision_id, and every revision_timestamp that is absent, *)
(* empty or in the format, search_contacts opens the kind of revision that  *)
(* parse_revision returns: the revision of the number revision_id when that *)
(* is not None and not zero, else the revision of the time when             *)
(* revision_timestamp is not empty, else the latest; the number is the same *)
(* in both, and so is the time when the store reads the timestamp.          *)
C19_SearchSelectsAsParseRevision ==
    last.op \in {"parse_revision", "open_resource"} =>
        LET rid == last.revision_id
            ts == last.revision_timestamp
            rev == parse_revision(rid, ts)
            open == open_resource(rid, ts)
            kind == IF Truthy(rid) THEN "number"
                    ELSE IF Truthy(ts) THEN "timestamp" ELSE "latest"
        IN rev.ok =>
              /\ last.out = (IF last.op = "parse_revision" THEN rev ELSE open)
              /\ KindOfRevision(rev.v) = kind
              /\ KindOfOpen(open) = kind
              /\ kind = "number" => open.arg = rev.v.v
              /\ (kind = "timestamp" /\ xs_dateTime(open.lit).ok) =>
                    xs_dateTime(open.lit).v = rev.v.v

\* search_contacts has opened the revision of a time, given a revision_id of
\* zero and a timestamp in the format
C19_Witness ==
    /\ last.op = "open_resource"
    /\ last.revision_id = IntV(0)
    /\ last.revision_timestamp = StrV(TsGood)
    /\ last.out.fn = "jn:open"
    /\ xs_dateTime(last.out.lit).ok

=============================================================================
